---- MODULE Spec2Model ----
(***************************************************************************)
(* Sharpe / Sortino calculator: the calculation engine                     *)
(* (calculateSharpeAndSortino) and the format normalizer                   *)
(* (extractValidNumbers).                                                  *)
(*                                                                         *)
(* Numbers are JavaScript numbers.  They are modelled exactly: a finite    *)
(* value is a reduced fraction, and the IEEE special values NaN, +Infinity *)
(* and -Infinity are values of their own with the IEEE rules for + - * /   *)
(* sqrt, pow, log, exp and the comparisons.  Irrational results are kept   *)
(* in closed form (a signed square root, a rational power, a logarithm).   *)
(* Rounding of the binary representation and the sign of zero are not      *)
(* modelled.                                                               *)
(***************************************************************************)
EXTENDS Integers, Sequences, FiniteSets, TLC

----------------------------------------------------------------------------
(* Bounds *)

\* longest observation series handed to the engine
MaxLen == 3

\* longest spreadsheet column handed to the normalizer
MaxRows == 10

\* longest column that is enumerated in every order
MaxShortRows == 3

----------------------------------------------------------------------------
(* JavaScript numbers *)

Abs(i) == IF i < 0 THEN -i ELSE i

RECURSIVE GCD(_, _)
GCD(a, b) == IF b = 0 THEN a ELSE GCD(b, a % b)

\* kinds: "fin"   n/d, reduced, d > 0
\*        "nan" "inf" "ninf"
\*        "sr"    sign(n) * sqrt(|n|/d), irrational
\*        "pw"    (n/d)^(p/q), irrational
\*        "pwm1"  (n/d)^(p/q) - 1, irrational
\*        "ln"    (p/q) * ln(n/d), n/d # 1
\*        "undef" the JavaScript value undefined
\*        "unk"   a value outside the closed forms above
Mk(k, n, d, p, q) == [k |-> k, n |-> n, d |-> d, p |-> p, q |-> q]

NaN == Mk("nan", 0, 0, 0, 0)
PosInf == Mk("inf", 0, 0, 0, 0)
NegInf == Mk("ninf", 0, 0, 0, 0)
Undefined == Mk("undef", 0, 0, 0, 0)
Unknown == Mk("unk", 0, 0, 0, 0)

Rat(n, d) ==
  LET g == GCD(Abs(n), Abs(d))
      s == IF d < 0 THEN -1 ELSE 1
  IN  Mk("fin", (s * n) \div g, (s * d) \div g, 1, 1)

Num(i) == Rat(i, 1)

\* (an/ad) * (bn/bd), cancelling before multiplying
RatMul(an, ad, bn, bd) ==
  LET g1 == GCD(Abs(an), Abs(bd))
      g2 == GCD(Abs(bn), Abs(ad))
  IN  IF an = 0 \/ bn = 0 THEN Rat(0, 1)
      ELSE Rat((an \div g1) * (bn \div g2), (ad \div g2) * (bd \div g1))

RECURSIVE IntPow(_, _)
IntPow(b, e) == IF e = 0 THEN 1 ELSE b * IntPow(b, e - 1)

\* the largest integer a closed form carries, 2^31 - 1
LargestExact == (IntPow(2, 30) - 1) * 2 + 1

\* whether (an/ad) * (bn/bd) stays within the integers carried
RatMulFits(an, ad, bn, bd) ==
  LET g1 == GCD(Abs(an), Abs(bd))
      g2 == GCD(Abs(bn), Abs(ad))
      Fits(x, y) == x = 0 \/ y = 0 \/ Abs(x) <= LargestExact \div Abs(y)
  IN  Fits(an \div g1, bn \div g2) /\ Fits(ad \div g2, bd \div g1)

IsFin(x) == x.k = "fin"
IsNaN(x) == x.k = "nan"
IsInfinite(x) == x.k \in {"inf", "ninf"}
IsZero(x) == x.k = "fin" /\ x.n = 0

\* -1, 0 or 1; NaN has none
SignOf(x) ==
  CASE x.k = "inf" -> 1
    [] x.k = "ninf" -> -1
    [] x.k \in {"fin", "sr"} -> (IF x.n > 0 THEN 1 ELSE IF x.n < 0 THEN -1 ELSE 0)
    [] x.k \in {"pw"} -> 1
    [] OTHER -> 0

InfOfSign(s) == IF s < 0 THEN NegInf ELSE PosInf

\* !x
Falsy(x) == x.k \in {"undef", "nan"} \/ IsZero(x)

Neg(x) ==
  CASE x.k = "fin" -> Rat(-x.n, x.d)
    [] x.k = "sr" -> Mk("sr", -x.n, x.d, 1, 2)
    [] x.k = "inf" -> NegInf
    [] x.k = "ninf" -> PosInf
    [] x.k = "nan" -> NaN
    [] OTHER -> Unknown

\* floor of the square root of n >= 0, by bisection on lo..hi
RECURSIVE ISqrtIn(_, _, _)
ISqrtIn(n, lo, hi) ==
  IF lo >= hi THEN lo
  ELSE LET mid == (lo + hi + 1) \div 2
       IN  IF mid * mid <= n THEN ISqrtIn(n, mid, hi) ELSE ISqrtIn(n, lo, mid - 1)

ISqrt(n) == ISqrtIn(n, 0, IF n < 46340 THEN n ELSE 46340)

IsSquare(n) == ISqrt(n) * ISqrt(n) = n

\* s * sqrt(n/d) for n >= 0, d > 0 and a sign s
SignedRoot(s, n, d) ==
  LET g == GCD(n, d)
      nn == n \div g
      dd == d \div g
  IN  IF n = 0 \/ s = 0 THEN Num(0)
      ELSE IF IsSquare(nn) /\ IsSquare(dd) THEN Rat(s * ISqrt(nn), ISqrt(dd))
      ELSE Mk("sr", s * nn, dd, 1, 2)

\* the square of a finite or square-root value, as numerator and denominator
SqN(x) == IF x.k = "fin" THEN x.n * x.n ELSE Abs(x.n)
SqD(x) == IF x.k = "fin" THEN x.d * x.d ELSE x.d

\* b^e for b >= 0 when it is at most cap, else cap + 1; from 2^32 on a
\* power is above every cap
RECURSIVE IntPowAtMost(_, _, _)
IntPowAtMost(b, e, cap) ==
  IF e = 0 THEN 1
  ELSE IF b <= 1 THEN b
  ELSE IF e > 31 THEN cap + 1
  ELSE LET r == IntPowAtMost(b, e - 1, cap)
       IN  IF r > cap \div b THEN cap + 1
           ELSE r * b

\* the integer m-th root of n >= 0 when it has one, else -1
RECURSIVE IRootFrom(_, _, _)
IRootFrom(i, n, m) ==
  IF IntPowAtMost(i, m, n) = n THEN i
  ELSE IF IntPowAtMost(i, m, n) > n THEN -1
  ELSE IRootFrom(i + 1, n, m)

IRoot(n, m) == IF m = 1 THEN n ELSE IRootFrom(0, n, m)

\* (n/d)^(p/q) for n > 0, d > 0, q > 0
RatPow(n, d, p, q) ==
  LET g == GCD(Abs(p), q)
      pp == p \div g
      qq == q \div g
      bn == IF pp < 0 THEN d ELSE n
      bd == IF pp < 0 THEN n ELSE d
      e == Abs(pp)
      rn == IRoot(bn, qq)
      rd == IRoot(bd, qq)
  IN  IF pp = 0 \/ bn = bd THEN Num(1)
      ELSE IF rn >= 0 /\ rd >= 0 THEN Rat(IntPow(rn, e), IntPow(rd, e))
      ELSE Mk("pw", bn, bd, e, qq)

\* a + b
Add(a, b) ==
  CASE a.k = "nan" \/ b.k = "nan" -> NaN
    [] IsInfinite(a) -> (IF IsInfinite(b) /\ b.k # a.k THEN NaN ELSE a)
    [] IsInfinite(b) -> b
    [] a.k = "fin" /\ b.k = "fin" ->
         (LET g == GCD(a.d, b.d)
          IN  Rat(a.n * (b.d \div g) + b.n * (a.d \div g), (a.d \div g) * b.d))
    [] IsZero(a) /\ b.k = "ln" -> b
    [] a.k = "ln" /\ IsZero(b) -> a
    [] a.k = "ln" /\ b.k = "ln" /\ a.p = 1 /\ a.q = 1 /\ b.p = 1 /\ b.q = 1 ->
         (LET r == RatMul(a.n, a.d, b.n, b.d)
          IN  IF ~RatMulFits(a.n, a.d, b.n, b.d) THEN Unknown
              ELSE IF r.n = r.d THEN Num(0)
              ELSE Mk("ln", r.n, r.d, 1, 1))
    [] a = Num(1) /\ b.k = "pwm1" -> Mk("pw", b.n, b.d, b.p, b.q)
    [] a.k = "pw" /\ b = Num(-1) -> Mk("pwm1", a.n, a.d, a.p, a.q)
    [] OTHER -> Unknown

\* a - b
Sub(a, b) == Add(a, Neg(b))

\* a * b
Mul(a, b) ==
  CASE a.k = "nan" \/ b.k = "nan" -> NaN
    [] IsInfinite(a) \/ IsInfinite(b) ->
         (IF IsZero(a) \/ IsZero(b) THEN NaN ELSE InfOfSign(SignOf(a) * SignOf(b)))
    [] a.k = "fin" /\ b.k = "fin" -> RatMul(a.n, a.d, b.n, b.d)
    [] a.k = "sr" /\ b.k = "sr" /\ Abs(a.n) = Abs(b.n) /\ a.d = b.d ->
         Rat(SignOf(a) * SignOf(b) * Abs(a.n), a.d)
    [] a.k \in {"fin", "sr"} /\ b.k \in {"fin", "sr"} ->
         (LET sq == RatMul(SqN(a), SqD(a), SqN(b), SqD(b))
          IN  SignedRoot(SignOf(a) * SignOf(b), sq.n, sq.d))
    [] OTHER -> Unknown

\* 1 / b for a finite or square-root b that is not zero
Recip(b) ==
  IF b.k = "fin" THEN Rat(b.d, b.n)
  ELSE Mk("sr", SignOf(b) * b.d, Abs(b.n), 1, 2)

\* a / b
Div(a, b) ==
  CASE a.k = "nan" \/ b.k = "nan" -> NaN
    [] IsInfinite(a) ->
         (IF IsInfinite(b) THEN NaN
          ELSE IF IsZero(b) THEN a
          ELSE InfOfSign(SignOf(a) * SignOf(b)))
    [] IsInfinite(b) -> (IF a.k \in {"fin", "sr", "ln"} THEN Num(0) ELSE Unknown)
    [] IsZero(b) ->
         (IF IsZero(a) THEN NaN
          ELSE IF a.k \in {"fin", "sr"} THEN InfOfSign(SignOf(a))
          ELSE Unknown)
    [] a.k = "ln" /\ b.k = "fin" ->
         (LET r == Rat(a.p * b.d, a.q * b.n) IN Mk("ln", a.n, a.d, r.n, r.d))
    [] a.k \in {"fin", "sr"} /\ b.k \in {"fin", "sr"} -> Mul(a, Recip(b))
    [] OTHER -> Unknown

\* Math.sqrt(x)
Sqrt(x) ==
  CASE x.k = "nan" \/ x.k = "ninf" -> NaN
    [] x.k = "inf" -> PosInf
    [] x.k = "fin" -> (IF x.n < 0 THEN NaN ELSE SignedRoot(1, x.n, x.d))
    [] OTHER -> Unknown

\* Math.pow(x, 2)
Pow2(x) == Mul(x, x)

\* a < b for finite and infinite values; false when either is NaN
Lt(a, b) ==
  CASE a.k = "nan" \/ b.k = "nan" -> FALSE
    [] a.k = "inf" \/ b.k = "ninf" -> FALSE
    [] a.k = "ninf" \/ b.k = "inf" -> TRUE
    [] a.k = "fin" /\ b.k = "fin" -> a.n * b.d < b.n * a.d
    [] OTHER -> FALSE

\* a >= b
Ge(a, b) == a.k # "nan" /\ b.k # "nan" /\ ~Lt(a, b)

\* Math.pow(b, e) for a rational or infinite e
Pow(b, e) ==
  CASE IsZero(e) -> Num(1)
    [] b.k = "nan" \/ e.k = "nan" -> NaN
    [] b.k = "fin" /\ b.n < 0 /\ e.k = "fin" ->
         (IF e.d # 1 THEN NaN
          ELSE Mul(Num(IF e.n % 2 = 0 THEN 1 ELSE -1), RatPow(-b.n, b.d, e.n, 1)))
    [] b.k = "fin" /\ b.n < 0 /\ IsInfinite(e) ->
         (IF -b.n = b.d THEN NaN
          ELSE IF (-b.n > b.d) = (e.k = "inf") THEN PosInf
          ELSE Num(0))
    [] b.k = "pw" /\ e.k = "fin" -> RatPow(b.n, b.d, b.p * e.n, b.q * e.d)
    [] b.k = "fin" /\ b.n = 0 /\ (e.k = "inf" \/ SignOf(e) > 0) -> Num(0)
    [] b.k = "fin" /\ b.n = 0 -> PosInf
    [] b.k = "fin" /\ b.n > 0 /\ IsInfinite(e) ->
         (IF b.n = b.d THEN NaN
          ELSE IF (b.n > b.d) = (e.k = "inf") THEN PosInf
          ELSE Num(0))
    [] b.k = "fin" /\ b.n > 0 /\ e.k = "fin" -> RatPow(b.n, b.d, e.n, e.d)
    [] OTHER -> Unknown

\* Math.log(x)
Log(x) ==
  CASE x.k = "nan" \/ x.k = "ninf" -> NaN
    [] x.k = "inf" -> PosInf
    [] x.k = "fin" ->
         (IF x.n < 0 THEN NaN
          ELSE IF x.n = 0 THEN NegInf
          ELSE IF x.n = x.d THEN Num(0)
          ELSE Mk("ln", x.n, x.d, 1, 1))
    [] OTHER -> Unknown

\* Math.exp(x)
Exp(x) ==
  CASE x.k = "nan" -> NaN
    [] x.k = "inf" -> PosInf
    [] x.k = "ninf" -> Num(0)
    [] IsZero(x) -> Num(1)
    [] x.k = "ln" -> RatPow(x.n, x.d, x.p, x.q)
    [] OTHER -> Unknown

\* const EPSILON = 1e-8, kept as its reciprocal
EpsilonInv == 100000000

\* x > EPSILON
GtEpsilon(x) ==
  CASE x.k = "inf" -> TRUE
    [] x.k = "fin" -> x.n > 0 /\ EpsilonInv > x.d \div x.n
    [] x.k = "sr" -> x.n > 0 /\ EpsilonInv > (x.d \div x.n) \div EpsilonInv
    [] OTHER -> FALSE

----------------------------------------------------------------------------
(* Array helpers; arr.map(f) is [i \in DOMAIN arr |-> f(arr[i])] and          *)
(* arr.filter(test) is SelectSeq(arr, test)                                 *)

\* arr.reduce((sum, val) => sum + val, 0)
RECURSIVE Sum(_)
Sum(arr) ==
  IF arr = <<>> THEN Num(0)
  ELSE Add(Sum(SubSeq(arr, 1, Len(arr) - 1)), arr[Len(arr)])

\* Math.min(...arr)
RECURSIVE MathMin(_)
MathMin(arr) ==
  IF arr = <<>> THEN PosInf
  ELSE LET m == MathMin(SubSeq(arr, 1, Len(arr) - 1))
       IN  IF Lt(arr[Len(arr)], m) THEN arr[Len(arr)] ELSE m

\* the series taken as sorted: the last element
MathMax_Last(arr) == IF arr = <<>> THEN NegInf ELSE arr[Len(arr)]

\* Math.max(...arr)
RECURSIVE MathMax(_)
MathMax(arr) ==
  IF arr = <<>> THEN NegInf
  ELSE LET m == MathMax(SubSeq(arr, 1, Len(arr) - 1))
       IN  IF Lt(m, arr[Len(arr)]) THEN arr[Len(arr)] ELSE m

----------------------------------------------------------------------------
(* The calculation engine *)

\* CalculationResult before any call has returned
NoResult ==
  [sharpeRatio |-> Undefined, sortinoRatio |-> Undefined,
   meanReturn |-> Undefined, geoMean |-> Undefined,
   stdDeviation |-> Undefined, downsideDeviation |-> Undefined,
   totalReturns |-> 0, positiveReturns |-> 0, negativeReturns |-> 0,
   minReturn |-> Undefined, maxReturn |-> Undefined,
   annualizedReturn |-> Undefined, sharpeSE |-> Undefined,
   excessReturn |-> Undefined]

convertToFractionalReturns(rets, portfolioValue) ==
  IF Falsy(portfolioValue) \/ ~Lt(Num(0), portfolioValue)
  THEN [convertedReturns |-> rets, wasConverted |-> FALSE]
  ELSE [convertedReturns |-> [i \in DOMAIN rets |-> Div(rets[i], portfolioValue)],
        wasConverted |-> TRUE]

\* the guard of step 1 left out: the call only warns and goes on
MissingPortfolioValue_WarnOnly(params) == FALSE

\* the guard of step 1: absolute data without a portfolio value
MissingPortfolioValue(params) ==
  params.dataFormat = "absolute" /\ Falsy(params.portfolioValue)

\* the conversion of step 1 left out: the statistics run on the raw amounts
Conversion_Raw(rets, params) == [convertedReturns |-> rets, wasConverted |-> FALSE]

\* the conversion of step 1
Conversion(rets, params) ==
  IF params.dataFormat = "absolute" /\ ~Falsy(params.portfolioValue)
  THEN convertToFractionalReturns(rets, params.portfolioValue)
  ELSE [convertedReturns |-> rets, wasConverted |-> FALSE]

returnsForCalculation(rets, params) == Conversion(rets, params).convertedReturns

\* Math.pow(1 + annual / 100, 1 / tradingPeriods) - 1
\* the annual rate read as a fraction, not as a percentage
PeriodicRate_AsFraction(annual, tradingPeriods) ==
  Sub(Pow(Add(Num(1), annual), Div(Num(1), tradingPeriods)), Num(1))

\* Math.pow(1 + rate / 100, 1 / params.tradingPeriods) - 1
PeriodicRate(annual, tradingPeriods) ==
  Sub(Pow(Add(Num(1), Div(annual, Num(100))), Div(Num(1), tradingPeriods)), Num(1))

\* the risk-free rate taken from the target rate when one is given
periodicRiskFreeRate_FromTarget(params) ==
  IF params.targetReturn # Undefined
  THEN PeriodicRate(params.targetReturn, params.tradingPeriods)
  ELSE PeriodicRate(params.riskFreeRate, params.tradingPeriods)

periodicRiskFreeRate(params) == PeriodicRate(params.riskFreeRate, params.tradingPeriods)

\* a missing target read as a target of 0%
targetReturn_DefaultZero(params) ==
  IF params.targetReturn # Undefined
  THEN PeriodicRate(params.targetReturn, params.tradingPeriods)
  ELSE Num(0)

targetReturn(params) ==
  IF params.targetReturn # Undefined
  THEN PeriodicRate(params.targetReturn, params.tradingPeriods)
  ELSE periodicRiskFreeRate(params)

\* exp(mean(log(1 + r))) - 1
GeoMean(rs) ==
  Sub(Exp(Div(Sum([i \in DOMAIN rs |-> Log(Add(Num(1), rs[i]))]), Num(Len(rs)))), Num(1))

\* simple scaling of the per-period value: gm * tradingPeriods
AnnualizedReturn_Scaled(gm, tradingPeriods) == Mul(gm, tradingPeriods)

AnnualizedReturn(gm, tradingPeriods) ==
  Sub(Pow(Add(Num(1), gm), tradingPeriods), Num(1))

MeanReturn(rs) == Div(Sum(rs), Num(Len(rs)))

\* sample variance, n - 1 in the denominator
Variance(rs) ==
  LET mean == MeanReturn(rs)
  IN  Div(Sum([i \in DOMAIN rs |-> Pow2(Sub(rs[i], mean))]), Num(Len(rs) - 1))

\* the comparison turned round: the returns above the target
NegativeDeviations_Upside(rs, target) ==
  LET below == SelectSeq(rs, LAMBDA r : Lt(target, r))
  IN  [i \in DOMAIN below |-> Pow2(Sub(target, below[i]))]

\* the squared shortfalls of the returns below the target
NegativeDeviations(rs, target) ==
  LET below == SelectSeq(rs, LAMBDA r : Lt(r, target))
  IN  [i \in DOMAIN below |-> Pow2(Sub(target, below[i]))]

\* the population denominator negativeDeviations.length
DownsideDenominator_Population(m) == m

\* (negativeDeviations.length - 1) || 1
DownsideDenominator(m) == IF m - 1 # 0 THEN m - 1 ELSE 1

DownsideVariance(rs, target) ==
  LET negativeDeviations == NegativeDeviations(rs, target)
  IN  IF Len(negativeDeviations) > 0
      THEN Div(Sum(negativeDeviations), Num(DownsideDenominator(Len(negativeDeviations))))
      ELSE Num(0)

\* a ratio without the EPSILON guard
GuardedRatio_Unguarded(excessReturn, deviation, annualizationFactor) ==
  Mul(Div(excessReturn, deviation), annualizationFactor)

\* a ratio under the EPSILON guard
GuardedRatio(excessReturn, deviation, annualizationFactor) ==
  IF GtEpsilon(deviation)
  THEN Mul(Div(excessReturn, deviation), annualizationFactor)
  ELSE Num(0)

SharpeSE(sharpeRatio, n) ==
  IF n > 1
  THEN Sqrt(Div(Add(Num(1), Mul(Rat(1, 2), Pow2(sharpeRatio))), Num(n - 1)))
  ELSE Num(0)

\* zero left out of the positive count: r > 0
PositiveReturns_Strict(originalReturns) ==
  Len(SelectSeq(originalReturns, LAMBDA r : Lt(Num(0), r)))

\* originalReturns.filter(r => r >= 0).length
PositiveReturns(originalReturns) ==
  Len(SelectSeq(originalReturns, LAMBDA r : Ge(r, Num(0))))

\* originalReturns.filter(r => r < 0).length
NegativeReturns(originalReturns) ==
  Len(SelectSeq(originalReturns, LAMBDA r : Lt(r, Num(0))))

\* the value the engine returns when it does not throw
EngineResult(rets, params) ==
  LET originalReturns == rets
      rs == returnsForCalculation(rets, params)
      rf == periodicRiskFreeRate(params)
      target == targetReturn(params)
      gm == GeoMean(rs)
      meanReturn == MeanReturn(rs)
      stdDeviation == Sqrt(Variance(rs))
      downsideDeviation == Sqrt(DownsideVariance(rs, target))
      excessReturn == Sub(meanReturn, rf)
      annualizationFactor == Sqrt(params.tradingPeriods)
      sharpeRatio == GuardedRatio(excessReturn, stdDeviation, annualizationFactor)
      sortinoRatio == GuardedRatio(excessReturn, downsideDeviation, annualizationFactor)
  IN  [sharpeRatio |-> sharpeRatio,
       sortinoRatio |-> sortinoRatio,
       meanReturn |-> meanReturn,
       geoMean |-> gm,
       stdDeviation |-> stdDeviation,
       downsideDeviation |-> downsideDeviation,
       totalReturns |-> Len(originalReturns),
       positiveReturns |-> PositiveReturns(originalReturns),
       negativeReturns |-> NegativeReturns(originalReturns),
       minReturn |-> MathMin(originalReturns),
       maxReturn |-> MathMax(originalReturns),
       annualizedReturn |-> AnnualizedReturn(gm, params.tradingPeriods),
       sharpeSE |-> SharpeSE(sharpeRatio, Len(rs)),
       excessReturn |-> excessReturn]

\* one call: either an Error is thrown or a result is returned; freezes tells
\* whether the array handed to Object.freeze is the caller's own array
calculateSharpeAndSortino(rets, params) ==
  IF MissingPortfolioValue(params)
  THEN [status |-> "threw", result |-> NoResult, freezes |-> FALSE]
  ELSE [status |-> "returned",
        result |-> EngineResult(rets, params),
        freezes |-> ~Conversion(rets, params).wasConverted]

----------------------------------------------------------------------------
(* The format normalizer *)

\* the null that cleanNumericValue returns
Null == Mk("null", 0, 0, 0, 0)

\* a spreadsheet cell of the selected column: a number or the empty string
NumberCell(v) == [t |-> "number", v |-> v]
EmptyCell == [t |-> "empty", v |-> Undefined]

\* a cell holding the string YYYY-MM-DD that formatExcelDate wrote
DateStringCell(y, m, d) == [t |-> "string", v |-> [y |-> y, m |-> m, d |-> d]]

\* parseFloat(str) of a string YYYY-MM-DD: replace() finds no currency sign,
\* blank or comma in it and it is not in parentheses, so parseFloat reads the
\* digits up to the first '-'
parseFloat(str) == Num(str.y)

\* zero taken for a missing value
cleanNumericValue_DropsZero(value) ==
  IF value.t = "empty" THEN Null
  ELSE IF value.t = "number" THEN (IF IsZero(value.v) THEN Null ELSE value.v)
  ELSE IF IsNaN(parseFloat(value.v)) THEN Null
  ELSE parseFloat(value.v)

cleanNumericValue(value) ==
  IF value.t = "empty" THEN Null
  ELSE IF value.t = "number" THEN value.v
  ELSE IF IsNaN(parseFloat(value.v)) THEN Null
  ELSE parseFloat(value.v)

\* Math.abs(v)
MathAbs(v) == IF SignOf(v) < 0 THEN Neg(v) ELSE v

\* a <= b
Le(a, b) == a.k # "nan" /\ b.k # "nan" /\ ~Lt(b, a)

\* count > 0.8 * total
AboveThreshold_Eighty(count, total) == 10 * count > 8 * total

\* count > 0.7 * total
AboveThreshold(count, total) == 10 * count > 7 * total

\* the fallback test with the upper end left out: maxAbsValue < 100
FallbackIsPercent_Strict(maxAbsValue, minAbsValue) ==
  Lt(maxAbsValue, Num(100)) /\ Ge(minAbsValue, Rat(1, 100))

\* maxAbsValue <= 100 && minAbsValue >= 0.01
FallbackIsPercent(maxAbsValue, minAbsValue) ==
  Le(maxAbsValue, Num(100)) /\ Ge(minAbsValue, Rat(1, 100))

\* the format the auto-detection settles on
AutoDetect(values) ==
  LET absValues == [i \in DOMAIN values |-> MathAbs(values[i])]
      maxAbsValue == MathMax(absValues)
      minAbsValue == MathMin(SelectSeq(absValues, LAMBDA v : Lt(Num(0), v)))
      percentRange == Len(SelectSeq(absValues, LAMBDA v : Lt(Num(1), v) /\ Le(v, Num(100))))
      decimalRange == Len(SelectSeq(absValues, LAMBDA v : Lt(Num(0), v) /\ Lt(v, Num(1))))
      absoluteRange == Len(SelectSeq(absValues, LAMBDA v : Lt(Num(100), v)))
  IN  IF AboveThreshold(percentRange, Len(values)) THEN "percent"
      ELSE IF AboveThreshold(decimalRange, Len(values)) THEN "decimal"
      ELSE IF AboveThreshold(absoluteRange, Len(values)) THEN "absolute"
      ELSE IF FallbackIsPercent(maxAbsValue, minAbsValue) THEN "percent"
      ELSE "decimal"

\* the percent transform left out: the values are passed through
extractValidNumbers_Unscaled(data, dataFormat) ==
  LET values == SelectSeq([i \in DOMAIN data |-> cleanNumericValue(data[i])],
                          LAMBDA value : value # Null)
      format == IF dataFormat \in {"percent", "decimal", "absolute"}
                THEN dataFormat
                ELSE AutoDetect(values)
  IN  IF Len(values) = 0
      THEN [values |-> <<>>, detectedFormat |-> "unknown"]
      ELSE [values |-> values, detectedFormat |-> format]

\* data is the selected column of the rows
extractValidNumbers(data, dataFormat) ==
  LET values == SelectSeq([i \in DOMAIN data |-> cleanNumericValue(data[i])],
                          LAMBDA value : value # Null)
      format == IF dataFormat \in {"percent", "decimal", "absolute"}
                THEN dataFormat
                ELSE AutoDetect(values)
      processedValues == IF format = "percent"
                         THEN [i \in DOMAIN values |-> Div(values[i], Num(100))]
                         ELSE values
  IN  IF Len(values) = 0
      THEN [values |-> <<>>, detectedFormat |-> "unknown"]
      ELSE [values |-> processedValues, detectedFormat |-> format]

----------------------------------------------------------------------------
(* The file parser: parseFile and the Excel date conversion *)

\* Math.floor(value) of a finite number
MathFloor(value) == value.n \div value.d

ExcelDateMin == 35000
ExcelDateMax == 60000

isExcelDate(value) ==
  /\ IsFin(value)
  /\ ~(Lt(value, Num(ExcelDateMin)) \/ Lt(Num(ExcelDateMax), value))
  /\ MathFloor(value) >= ExcelDateMin
  /\ MathFloor(value) <= ExcelDateMax
  /\ Ge(Sub(value, Num(MathFloor(value))), Num(0))
  /\ Lt(Sub(value, Num(MathFloor(value))), Num(1))

\* the calendar of XLSX.SSF.parse_date_code: day 1 is 1900-01-01 and 1900 is
\* counted as a leap year
IsLeapYear(y) == y = 1900 \/ (y % 4 = 0 /\ (y % 100 # 0 \/ y % 400 = 0))
DaysInYear(y) == IF IsLeapYear(y) THEN 366 ELSE 365
DaysInMonth(y, m) ==
  IF m = 2 THEN (IF IsLeapYear(y) THEN 29 ELSE 28)
  ELSE IF m \in {4, 6, 9, 11} THEN 30 ELSE 31

RECURSIVE MonthAndDay(_, _, _)
MonthAndDay(y, m, day) ==
  IF day > DaysInMonth(y, m) THEN MonthAndDay(y, m + 1, day - DaysInMonth(y, m))
  ELSE [y |-> y, m |-> m, d |-> day]

RECURSIVE DateOfDay(_, _)
DateOfDay(y, day) ==
  IF day > DaysInYear(y) THEN DateOfDay(y + 1, day - DaysInYear(y))
  ELSE MonthAndDay(y, 1, day)

\* formatExcelDate(excelDate): the day of the serial number as YYYY-MM-DD
formatExcelDate(excelDate) ==
  LET date == DateOfDay(1900, MathFloor(excelDate))
  IN  DateStringCell(date.y, date.m, date.d)

\* a file is given by its MIME type and by what XLSX.read and sheet_to_json
\* make of it: an error, or the rows of the first sheet
UnreadableFile(type) == [type |-> type, readable |-> FALSE, rawData |-> <<>>]
SheetFile(type, rawData) == [type |-> type, readable |-> TRUE, rawData |-> rawData]

\* the sheet with one headed column
SheetOfColumn(header, column) ==
  SheetFile("text/csv", <<<<header>>>> \o [r \in DOMAIN column |-> <<column[r]>>])

supportedFileTypes ==
  {"text/csv",
   "application/vnd.openxmlformats-officedocument.spreadsheetml.sheet",
   "application/vnd.ms-excel",
   "text/tab-separated-values"}

validateFileType(file) == file.type \in supportedFileTypes

\* the cell of parsed row after the date conversion
ConvertedCell(value) ==
  IF value.t = "number" /\ isExcelDate(value.v) THEN formatExcelDate(value.v)
  ELSE value

\* parseFile(file): null for an unreadable file or a sheet without rows,
\* else the headers of the first row and the other rows, date cells converted
parseFile(file) ==
  IF ~file.readable THEN Null
  ELSE IF Len(file.rawData) = 0 THEN Null
  ELSE [headers |-> [i \in DOMAIN file.rawData[1] |->
                       IF file.rawData[1][i] = "" THEN "Column 1"
                       ELSE file.rawData[1][i]],
        rows |-> [r \in 1..(Len(file.rawData) - 1) |->
                    [c \in DOMAIN file.rawData[r + 1] |->
                       ConvertedCell(file.rawData[r + 1][c])]]]

\* data.map(row => row[columnIndex]), columnIndex counted from 0; a row too
\* short for the column gives undefined, which cleanNumericValue drops
ColumnOf(data, columnIndex) ==
  [r \in DOMAIN data |->
     IF columnIndex + 1 \in DOMAIN data[r] THEN data[r][columnIndex + 1]
     ELSE EmptyCell]

----------------------------------------------------------------------------
(* The returns distribution chart of Results: prepareHistogramData *)

MaxBins == 20

\* Math.ceil(Math.sqrt(n)) of a count
CeilSqrt(n) == IF IsSquare(n) THEN ISqrt(n) ELSE ISqrt(n) + 1

\* Math.min(20, Math.ceil(Math.sqrt(returnValues.length)))
BinCount(returnValues) ==
  IF CeilSqrt(Len(returnValues)) < MaxBins THEN CeilSqrt(Len(returnValues))
  ELSE MaxBins

\* Math.round(x) of a finite number: the floor of x + 1/2
MathRound(x) == MathFloor(Add(x, Rat(1, 2)))

\* the bins from start on, each binWidth wide
BinsFrom(start, binWidth, count, isNegative) ==
  [i \in 1..count |->
     [min |-> Add(start, Mul(Num(i - 1), binWidth)),
      max |-> Add(start, Mul(Num(i), binWidth)),
      isNegative |-> isNegative]]

\* the bins when the series lies on one side of zero
DefaultBins(returnValues) ==
  LET minReturn == MathMin(returnValues)
      maxReturn == MathMax(returnValues)
      range == Sub(maxReturn, minReturn)
      binCount == BinCount(returnValues)
      binWidth == Div(range, Num(binCount))
  IN  [i \in 1..binCount |->
         [min |-> Add(minReturn, Mul(Num(i - 1), binWidth)),
          max |-> Add(minReturn, Mul(Num(i), binWidth)),
          isNegative |-> Lt(Add(minReturn, Mul(Num(i - 1), binWidth)), Num(0))]]

\* Math.max(1, Math.round(binCount * (negRange / totalRange)))
NegBins(binCount, negRange, totalRange) ==
  IF MathRound(Mul(Num(binCount), Div(negRange, totalRange))) > 1
  THEN MathRound(Mul(Num(binCount), Div(negRange, totalRange)))
  ELSE 1

\* the bins when the series has values on both sides of zero
SplitBins(returnValues) ==
  LET minReturn == MathMin(returnValues)
      maxReturn == MathMax(returnValues)
      negRange == Sub(Num(0), minReturn)
      posRange == Sub(maxReturn, Num(0))
      totalRange == Sub(maxReturn, minReturn)
      binCount == BinCount(returnValues)
      negBins == NegBins(binCount, negRange, totalRange)
      posBins == binCount - negBins
      negBinWidth == Div(negRange, Num(negBins))
      posBinWidth == Div(posRange, Num(IF posBins > 1 THEN posBins ELSE 1))
  IN  BinsFrom(minReturn, negBinWidth, negBins, TRUE)
        \o BinsFrom(Num(0), posBinWidth, posBins, FALSE)

\* bins.findIndex(bin => val >= bin.min && val < bin.max), 0 for not found
FindBin(bins, val) ==
  IF \E i \in DOMAIN bins : Ge(val, bins[i].min) /\ Lt(val, bins[i].max)
  THEN CHOOSE i \in DOMAIN bins :
         /\ Ge(val, bins[i].min) /\ Lt(val, bins[i].max)
         /\ \A j \in 1..(i - 1) : ~(Ge(val, bins[j].min) /\ Lt(val, bins[j].max))
  ELSE 0

\* the bins with the count of the values that forEach adds to each
prepareHistogramData(returnValues) ==
  LET minReturn == MathMin(returnValues)
      maxReturn == MathMax(returnValues)
      bins == IF Ge(minReturn, Num(0)) \/ Le(maxReturn, Num(0))
              THEN DefaultBins(returnValues)
              ELSE SplitBins(returnValues)
  IN  [i \in DOMAIN bins |->
         [min |-> bins[i].min, max |-> bins[i].max, isNegative |-> bins[i].isNegative,
          count |-> Cardinality(
            {k \in DOMAIN returnValues :
               \/ FindBin(bins, returnValues[k]) = i
               \/ /\ FindBin(bins, returnValues[k]) = 0
                  /\ returnValues[k] = maxReturn
                  /\ i = Len(bins)})]]

----------------------------------------------------------------------------
(* The spreadsheet export: the summary of the Breakdown sheet *)

\* the squares (targetFrac - v) ** 2 of the values below the target
DownSquares(fracReturns, targetFrac) ==
  LET below == SelectSeq(fracReturns, LAMBDA v : Lt(v, targetFrac))
  IN  [i \in DOMAIN below |-> Pow2(Sub(targetFrac, below[i]))]

\* exportAnalysisToXLSX(result, returnValues, params): the values written
\* under 'Summary' in the Breakdown sheet
exportAnalysisToXLSX(result, returnValues, exportParams) ==
  LET fracReturns ==
        IF exportParams.dataFormat = "absolute" /\ ~Falsy(exportParams.portfolioValue)
        THEN [i \in DOMAIN returnValues |->
                Div(returnValues[i], exportParams.portfolioValue)]
        ELSE <<>>
      meanFrac == IF Len(fracReturns) > 0
                  THEN Div(Sum(fracReturns), Num(Len(fracReturns)))
                  ELSE Num(0)
      varianceFrac ==
        IF Len(fracReturns) > 1
        THEN Div(Sum([i \in DOMAIN fracReturns |-> Pow2(Sub(fracReturns[i], meanFrac))]),
                 Num(Len(fracReturns) - 1))
        ELSE Num(0)
      periodicRf == PeriodicRate(exportParams.riskFreeRate, exportParams.tradingPeriods)
      targetFrac == IF exportParams.targetReturn # Undefined
                    THEN PeriodicRate(exportParams.targetReturn, exportParams.tradingPeriods)
                    ELSE periodicRf
      downSquares == DownSquares(fracReturns, targetFrac)
  IN  [meanFrac |-> meanFrac,
       stdDevFrac |-> Sqrt(varianceFrac),
       downsideDev |-> Sqrt(IF Len(downSquares) > 0
                            THEN Div(Sum(downSquares), Num(Len(downSquares)))
                            ELSE Num(0)),
       sharpeRatio |-> result.sharpeRatio,
       sortinoRatio |-> result.sortinoRatio]

----------------------------------------------------------------------------
(* State *)

VARIABLES
  pc,             \* "ready" before the call, "done" after it
  returns,        \* the caller's observation array
  returnsFrozen,  \* whether the caller's array has been frozen
  params,         \* CalculationParams of the call
  outcome,        \* what calculateSharpeAndSortino did
  rows,           \* the selected column of the parsed rows
  dataFormat,     \* the format requested from the normalizer
  extracted,      \* what extractValidNumbers returned
  previous,       \* what an earlier call on the same input did
  index,          \* the useState fields of Index
  fileUpload,     \* the useState fields of the mounted FileUpload
  dataPreview,    \* the useState fields of the mounted DataPreview
  parsing,        \* the handleFile calls that await parseFile
  histogram,      \* the bins that Results draws
  rates           \* the periodic rates the engine converts the annual rates to

\* the state of the three-step workflow
ui == <<index, fileUpload, dataPreview, parsing, histogram>>

vars ==
  <<pc, returns, returnsFrozen, params, outcome, rows, dataFormat, extracted, previous,
    index, fileUpload, dataPreview, parsing, histogram, rates>>

NoParams ==
  [riskFreeRate |-> Num(0), tradingPeriods |-> Num(252),
   targetReturn |-> Undefined, dataFormat |-> "auto",
   portfolioValue |-> Undefined]

NoOutcome == [status |-> "none", result |-> NoResult, freezes |-> FALSE]

NoExtraction == [values |-> <<>>, detectedFormat |-> "none"]

NoRates == [periodicRiskFreeRate |-> Undefined, targetReturn |-> Undefined]

\* Index as constructed (useState initial values)
IndexInit ==
  [calculationParams |-> Null, appState |-> "UPLOAD", parsedData |-> Null,
   result |-> Null, returnValues |-> <<>>, dataFormat |-> "auto"]

\* FileUpload and DataPreview as mounted (useState initial values)
FileUploadInit == [isLoading |-> FALSE]
DataPreviewInit == [columnIndex |-> -1, isLoading |-> FALSE]

\* the page as loaded: the upload step, no file being read
PageLoaded ==
  /\ index = IndexInit
  /\ fileUpload = FileUploadInit
  /\ dataPreview = DataPreviewInit
  /\ parsing = <<>>
  /\ histogram = <<>>

----------------------------------------------------------------------------
(* Inputs of the engine *)

\* observations: -200%, -50%, 0 and +50% per period; as currency amounts over
\* a portfolio value of 2 they are the returns -100%, -25%, 0 and +25%
Observations == {Num(-2), Rat(-1, 2), Num(0), Rat(1, 2)}

SeriesOf(S, maxLen) == UNION {[1..n -> S] : n \in 1..maxLen}

TradingPeriods == {Num(-1), Num(0), Num(1), Num(2)}

\* the annual risk-free rate of a call and the target rate that comes with it.
\* The rates are 0%, 125% (its periodic rates are rational, 1 + 125/100 being
\* (3/2)^2) and -200% (below -100% the base of the conversion is negative);
\* the target is left out or differs from the risk-free rate
RiskFreeAndTarget ==
  {<<Num(0), Undefined>>, <<Num(0), Num(125)>>,
   <<Num(125), Undefined>>, <<Num(125), Num(0)>>,
   <<Num(-200), Num(0)>>}

\* the data format of a call and the portfolio value that comes with it
FormatAndPortfolio ==
  ({"absolute"} \X {Undefined, Num(0), Num(-2), Num(2)})
    \cup ({"decimal"} \X {Undefined})
    \cup ({"percent"} \X {Undefined})

EngineParams ==
  {[riskFreeRate |-> rt[1], tradingPeriods |-> tp, targetReturn |-> rt[2],
    dataFormat |-> fp[1], portfolioValue |-> fp[2]] :
     rt \in RiskFreeAndTarget, tp \in TradingPeriods, fp \in FormatAndPortfolio}

----------------------------------------------------------------------------
(* The engine called on an observation series *)

Init ==
  /\ pc = "ready"
  /\ returns \in SeriesOf(Observations, MaxLen)
  /\ returnsFrozen = FALSE
  /\ params \in EngineParams
  /\ outcome = NoOutcome
  /\ rows = <<>>
  /\ dataFormat = "auto"
  /\ extracted = NoExtraction
  /\ previous = NoOutcome
  /\ PageLoaded
  /\ rates = NoRates

\* the caller invokes calculateSharpeAndSortino(returns, params)
Calculate ==
  /\ pc = "ready"
  /\ outcome' = calculateSharpeAndSortino(returns, params)
  /\ returnsFrozen' = (returnsFrozen \/ outcome'.freezes)
  /\ pc' = "done"
  /\ UNCHANGED <<returns, params, rows, dataFormat, extracted, previous, ui, rates>>

Next == Calculate

Spec == Init /\ [][Next]_vars

----------------------------------------------------------------------------
(* The rate conversion at the head of the engine *)

\* annual rates in percent and the periods of a year: yearly, half-yearly,
\* monthly and daily data
AnnualRates == {Num(-100), Num(0), Num(12), Num(125)}
PeriodsPerYear == {Num(1), Num(2), Num(12), Num(252)}

InitRates ==
  /\ pc = "ready"
  /\ returns = <<>>
  /\ returnsFrozen = FALSE
  /\ params \in {[NoParams EXCEPT !.riskFreeRate = rf, !.tradingPeriods = tp,
                                  !.targetReturn = tg, !.dataFormat = "decimal"] :
                   rf \in AnnualRates, tp \in PeriodsPerYear,
                   tg \in AnnualRates \cup {Undefined}}
  /\ outcome = NoOutcome
  /\ rows = <<>>
  /\ dataFormat = "auto"
  /\ extracted = NoExtraction
  /\ previous = NoOutcome
  /\ PageLoaded
  /\ rates = NoRates

\* the engine converts the annual rates of params to periodic rates
ConvertRates ==
  /\ pc = "ready"
  /\ rates' = [periodicRiskFreeRate |-> periodicRiskFreeRate(params),
               targetReturn |-> targetReturn(params)]
  /\ pc' = "done"
  /\ UNCHANGED <<returns, returnsFrozen, params, outcome, rows, dataFormat,
                 extracted, previous, ui>>

SpecRates == InitRates /\ [][ConvertRates]_vars

----------------------------------------------------------------------------
(* The engine called more than once *)

\* the valid configurations: tradingPeriods > 0, a risk-free rate of -100%
\* or more and, for absolute data, a portfolio value > 0
ValidParams ==
  {p \in EngineParams :
     /\ Lt(Num(0), p.tradingPeriods)
     /\ Le(Num(-100), p.riskFreeRate)
     /\ p.dataFormat = "absolute" => Lt(Num(0), p.portfolioValue)}

\* the series of the calls made in between, by the same or another caller
OtherSeries == {<<Rat(1, 2), Rat(-1, 2)>>, <<Num(-2), Num(0), Num(0)>>}

InitCalls ==
  /\ pc = "ready"
  /\ returns \in SeriesOf(Observations, MaxLen)
  /\ returnsFrozen = FALSE
  /\ params \in ValidParams
  /\ outcome = NoOutcome
  /\ rows = <<>>
  /\ dataFormat = "auto"
  /\ extracted = NoExtraction
  /\ previous = NoOutcome
  /\ PageLoaded
  /\ rates = NoRates

\* a call on another series; the result of the first call is kept aside
CallOther ==
  /\ pc = "done"
  /\ \E other \in OtherSeries : outcome' = calculateSharpeAndSortino(other, params)
  /\ previous' = outcome
  /\ pc' = "between"
  /\ UNCHANGED <<returns, returnsFrozen, params, rows, dataFormat, extracted, ui, rates>>

\* the second call answered from the result of the most recent call
CallAgain_Cached ==
  /\ pc \in {"done", "between"}
  /\ outcome' = outcome
  /\ previous' = IF pc = "done" THEN outcome ELSE previous
  /\ returnsFrozen' = (returnsFrozen \/ outcome'.freezes)
  /\ pc' = "again"
  /\ UNCHANGED <<returns, params, rows, dataFormat, extracted, ui, rates>>

\* the caller invokes calculateSharpeAndSortino(returns, params) once more
CallAgain ==
  /\ pc \in {"done", "between"}
  /\ outcome' = calculateSharpeAndSortino(returns, params)
  /\ previous' = IF pc = "done" THEN outcome ELSE previous
  /\ returnsFrozen' = (returnsFrozen \/ outcome'.freezes)
  /\ pc' = "again"
  /\ UNCHANGED <<returns, params, rows, dataFormat, extracted, ui, rates>>

NextCalls == Calculate \/ CallOther \/ CallAgain

SpecCalls == InitCalls /\ [][NextCalls]_vars

----------------------------------------------------------------------------
(* The normalizer called on a column *)

\* the cell values of the long columns, in the order the columns list them:
\* zero, below 0.01, decimal-like, exactly 1, percent-like, absolute-like
CellOrder == <<Num(0), Rat(1, 200), Rat(-1, 2), Num(1), Num(-100), Num(150)>>

\* the index sequences of length n that never decrease
RECURSIVE NonDecreasing(_)
NonDecreasing(n) ==
  IF n = 0 THEN {<<>>}
  ELSE UNION {{Append(s, i) : i \in (IF s = <<>> THEN 1 ELSE s[Len(s)])..Len(CellOrder)} :
                s \in NonDecreasing(n - 1)}

LongColumns ==
  UNION {{[i \in DOMAIN s |-> NumberCell(CellOrder[s[i]])] : s \in NonDecreasing(n)} :
           n \in 0..MaxRows}

ShortCells == {NumberCell(CellOrder[i]) : i \in DOMAIN CellOrder} \cup {EmptyCell}

ShortColumns == UNION {[1..n -> ShortCells] : n \in 0..MaxShortRows}

RequestedFormats == {"auto", "percent", "decimal", "absolute"}

InitNorm ==
  /\ pc = "ready"
  /\ returns = <<>>
  /\ returnsFrozen = FALSE
  /\ params = NoParams
  /\ outcome = NoOutcome
  /\ rows \in LongColumns \cup ShortColumns
  /\ dataFormat \in RequestedFormats
  /\ extracted = NoExtraction
  /\ previous = NoOutcome
  /\ PageLoaded
  /\ rates = NoRates

\* the configure step invokes extractValidNumbers(rows, columnIndex, dataFormat)
Extract ==
  /\ pc = "ready"
  /\ extracted' = extractValidNumbers(rows, dataFormat)
  /\ pc' = "done"
  /\ UNCHANGED <<returns, returnsFrozen, params, outcome, rows, dataFormat, previous, ui, rates>>

NextNorm == Extract

SpecNorm == InitNorm /\ [][NextNorm]_vars

----------------------------------------------------------------------------
(* The configure step: the normalizer and the engine behind handleSubmit *)

\* numericValues.length < 10 is refused
MinDataPoints == 10

\* the CalculationParams that handleSubmit builds from the form
SubmittedParams(form, effectiveFormat) ==
  [riskFreeRate |-> form.riskFreeRate,
   tradingPeriods |-> form.tradingPeriods,
   targetReturn |-> form.targetReturn,
   dataFormat |-> effectiveFormat,
   portfolioValue |-> IF Falsy(form.portfolioValue) THEN Undefined
                      ELSE form.portfolioValue]

\* the minimum of ten data points not asked for
handleSubmit_AnyLength(data, form) ==
  LET ex == extractValidNumbers(data, form.dataFormat)
      numericValues == ex.values
      effectiveFormat == IF form.dataFormat = "auto" THEN ex.detectedFormat
                         ELSE form.dataFormat
      refused == [proceeded |-> FALSE, extracted |-> ex, values |-> <<>>,
                  params |-> form, outcome |-> NoOutcome]
  IN  IF IsNaN(form.riskFreeRate) \/ IsNaN(form.tradingPeriods)
           \/ IsNaN(form.targetReturn) \/ IsNaN(form.portfolioValue)
      THEN [refused EXCEPT !.extracted = NoExtraction]
      ELSE IF Le(form.tradingPeriods, Num(0))
      THEN [refused EXCEPT !.extracted = NoExtraction]
      ELSE IF effectiveFormat = "absolute"
                /\ (Falsy(form.portfolioValue) \/ Le(form.portfolioValue, Num(0)))
      THEN refused
      ELSE [proceeded |-> TRUE, extracted |-> ex, values |-> numericValues,
            params |-> SubmittedParams(form, effectiveFormat),
            outcome |-> calculateSharpeAndSortino(
                          numericValues, SubmittedParams(form, effectiveFormat))]

\* handleSubmit on the selected column and the parsed form fields; onProceed is
\* handleCalculate, which calls the engine before handleSubmit returns
handleSubmit(data, form) ==
  LET ex == extractValidNumbers(data, form.dataFormat)
      numericValues == ex.values
      effectiveFormat == IF form.dataFormat = "auto" THEN ex.detectedFormat
                         ELSE form.dataFormat
      refused == [proceeded |-> FALSE, extracted |-> ex, values |-> <<>>,
                  params |-> form, outcome |-> NoOutcome]
  IN  IF IsNaN(form.riskFreeRate) \/ IsNaN(form.tradingPeriods)
           \/ IsNaN(form.targetReturn) \/ IsNaN(form.portfolioValue)
      THEN [refused EXCEPT !.extracted = NoExtraction]
      ELSE IF Le(form.tradingPeriods, Num(0))
      THEN [refused EXCEPT !.extracted = NoExtraction]
      ELSE IF effectiveFormat = "absolute"
                /\ (Falsy(form.portfolioValue) \/ Le(form.portfolioValue, Num(0)))
      THEN refused
      ELSE IF Len(numericValues) < MinDataPoints
      THEN refused
      ELSE [proceeded |-> TRUE, extracted |-> ex, values |-> numericValues,
            params |-> SubmittedParams(form, effectiveFormat),
            outcome |-> calculateSharpeAndSortino(
                          numericValues, SubmittedParams(form, effectiveFormat))]

\* the cell values of the uploaded columns, in the order the columns list
\* them: percent-like, zero, decimal-like, absolute-like
UploadCellOrder == <<Num(-50), Num(0), Rat(1, 2), Num(200)>>

\* the index sequences of length n over 1..k that never decrease
RECURSIVE NonDecreasingOver(_, _)
NonDecreasingOver(n, k) ==
  IF n = 0 THEN {<<>>}
  ELSE UNION {{Append(s, i) : i \in (IF s = <<>> THEN 1 ELSE s[Len(s)])..k} :
                s \in NonDecreasingOver(n - 1, k)}

\* uploaded columns: one row short of the minimum, and long enough
UploadedColumns ==
  UNION {{[i \in DOMAIN s |-> NumberCell(UploadCellOrder[s[i]])] :
            s \in NonDecreasingOver(n, Len(UploadCellOrder))} :
           n \in (MinDataPoints - 1)..MaxRows}

\* the form fields as parsed: the rates, the periods and the portfolio value
FormRates == {<<Num(0), Undefined>>, <<Num(125), Num(0)>>}
FormPeriods == {Num(0), Num(2)}
FormPortfolio == {Undefined, Num(-2), Num(200)}

Forms ==
  {[riskFreeRate |-> rt[1], tradingPeriods |-> tp, targetReturn |-> rt[2],
    dataFormat |-> f, portfolioValue |-> pv] :
     rt \in FormRates, tp \in FormPeriods, f \in RequestedFormats,
     pv \in FormPortfolio}

InitPipe ==
  /\ pc = "ready"
  /\ returns = <<>>
  /\ returnsFrozen = FALSE
  /\ params \in Forms
  /\ outcome = NoOutcome
  /\ rows \in UploadedColumns
  /\ dataFormat = params.dataFormat
  /\ extracted = NoExtraction
  /\ previous = NoOutcome
  /\ PageLoaded
  /\ rates = NoRates

\* the user presses Calculate: handleSubmit runs on the column and the form
Submit ==
  /\ pc = "ready"
  /\ \E done \in {handleSubmit(rows, params)} :
         /\ pc' = IF done.proceeded THEN "done" ELSE "refused"
         /\ extracted' = done.extracted
         /\ returns' = done.values
         /\ params' = done.params
         /\ outcome' = done.outcome
         /\ returnsFrozen' = done.outcome.freezes
  /\ UNCHANGED <<rows, dataFormat, previous, ui, rates>>

NextPipe == Submit

SpecPipe == InitPipe /\ [][NextPipe]_vars

----------------------------------------------------------------------------
(* The handlers of Index *)

\* handleDataParsed(data)
handleDataParsed(idx, data) ==
  [idx EXCEPT !.parsedData = data, !.appState = "PREVIEW"]

\* the setters run before the engine is called
handleCalculate_SetsFirst(idx, values, calcParams, format) ==
  LET paramsWithFormat == [calcParams EXCEPT !.dataFormat = format]
      Settled(calculationResult) ==
        [threw |-> calculationResult.status = "threw",
         outcome |-> calculationResult,
         index |-> [idx EXCEPT !.returnValues = values,
                               !.dataFormat = format,
                               !.calculationParams = paramsWithFormat]]
  IN  Settled(calculateSharpeAndSortino(values, paramsWithFormat))

\* handleCalculate(values, params, format): the engine is called first; when
\* it throws, no setter has run
handleCalculate(idx, values, calcParams, format) ==
  LET paramsWithFormat == [calcParams EXCEPT !.dataFormat = format]
      Settled(calculationResult) ==
        IF calculationResult.status = "threw"
        THEN [threw |-> TRUE, outcome |-> calculationResult, index |-> idx]
        ELSE [threw |-> FALSE, outcome |-> calculationResult,
              index |-> [idx EXCEPT !.returnValues = values,
                                    !.result = calculationResult.result,
                                    !.dataFormat = format,
                                    !.appState = "RESULTS",
                                    !.calculationParams = paramsWithFormat]]
  IN  Settled(calculateSharpeAndSortino(values, paramsWithFormat))

\* the reset that clears the data and leaves the step as it is
handleReset_KeepsStep(idx) ==
  [idx EXCEPT !.parsedData = Null, !.result = Null, !.returnValues = <<>>,
              !.dataFormat = "auto"]

\* handleReset()
handleReset(idx) ==
  [idx EXCEPT !.parsedData = Null, !.result = Null, !.returnValues = <<>>,
              !.dataFormat = "auto", !.appState = "UPLOAD"]

----------------------------------------------------------------------------
(* The three-step workflow: upload, configure, results *)

\* the handleFile calls that can await parseFile at a time
MaxParses == 2

\* the headers with 'return', 'pnl', 'value', 'profit' or 'loss' in them
CommonlyNamed == {"Return", "PnL"}

\* the column the effect of DataPreview selects for the headers of data
PreselectedColumn(data, current) ==
  IF Len(data.headers) > 0
  THEN IF \E i \in DOMAIN data.headers : data.headers[i] \in CommonlyNamed
       THEN (CHOOSE i \in DOMAIN data.headers :
               /\ data.headers[i] \in CommonlyNamed
               /\ \A j \in 1..(i - 1) : data.headers[j] \notin CommonlyNamed) - 1
       ELSE 0
  ELSE current

\* handleColumnSelect(value): data.headers.findIndex(h => h === value)
handleColumnSelect(data, value) ==
  IF \E i \in DOMAIN data.headers : data.headers[i] = value
  THEN (CHOOSE i \in DOMAIN data.headers :
          /\ data.headers[i] = value
          /\ \A j \in 1..(i - 1) : data.headers[j] # value) - 1
  ELSE -1

\* a sheet of dated returns in percent, ten rows
ReturnsSheet ==
  SheetFile("text/csv",
    <<<<"Date", "Return">>>> \o
    [r \in 1..MinDataPoints |->
       <<NumberCell(Num(45000 + r)),
         NumberCell(IF r <= 3 THEN Num(-50) ELSE IF r <= 6 THEN Num(0) ELSE Rat(1, 2))>>])

\* a sheet of profits and losses in currency, ten rows
PnLSheet ==
  SheetFile("application/vnd.ms-excel",
    <<<<"PnL">>>> \o
    [r \in 1..MinDataPoints |-> <<NumberCell(IF r <= 2 THEN Num(-50) ELSE Num(200))>>])

\* a sheet of returns one row short of the minimum
ShortSheet ==
  SheetFile("text/csv",
    <<<<"Return">>>> \o
    [r \in 1..(MinDataPoints - 1) |->
       <<NumberCell(IF r <= 4 THEN Num(-50) ELSE Rat(1, 2))>>])

\* the files the user picks or drops: the three sheets, a sheet without rows
\* and a file of a type that is not supported
Uploads ==
  {ReturnsSheet, PnLSheet, ShortSheet, SheetFile("text/csv", <<>>),
   UnreadableFile("application/pdf")}

\* the form as parsed: defaults, with a portfolio value, an unparsable rate,
\* no periods, and absolute data with a negative portfolio value
FilledForms ==
  {[NoParams EXCEPT !.tradingPeriods = Num(2)],
   [NoParams EXCEPT !.tradingPeriods = Num(2), !.portfolioValue = Num(200)],
   [NoParams EXCEPT !.tradingPeriods = Num(2), !.riskFreeRate = NaN],
   [NoParams EXCEPT !.tradingPeriods = Num(0)],
   [NoParams EXCEPT !.tradingPeriods = Num(2), !.dataFormat = "absolute",
                    !.portfolioValue = Num(-2)]}

InitFlow ==
  /\ pc = "ready"
  /\ returns = <<>>
  /\ returnsFrozen = FALSE
  /\ params = NoParams
  /\ outcome = NoOutcome
  /\ rows = <<>>
  /\ dataFormat = "auto"
  /\ extracted = NoExtraction
  /\ previous = NoOutcome
  /\ PageLoaded
  /\ rates = NoRates

\* the locals of the last handleSubmit are gone
NoSubmission ==
  /\ pc' = "ready"
  /\ returns' = <<>>
  /\ returnsFrozen' = FALSE
  /\ params' = NoParams
  /\ outcome' = NoOutcome
  /\ rows' = <<>>
  /\ extracted' = NoExtraction

\* handleFile(file) up to the await: the type check and setIsLoading(true)
BeginHandleFile(file) ==
  IF ~validateFileType(file)
  THEN UNCHANGED <<fileUpload, parsing>>
  ELSE /\ fileUpload' = [fileUpload EXCEPT !.isLoading = TRUE]
       /\ parsing' = Append(parsing, [file |-> file, mounted |-> TRUE])

\* the user picks a file with the input, which is disabled while isLoading
handleFileChange ==
  /\ index.appState = "UPLOAD"
  /\ ~fileUpload.isLoading
  /\ Len(parsing) < MaxParses
  /\ \E file \in Uploads : BeginHandleFile(file)
  /\ NoSubmission
  /\ UNCHANGED <<dataFormat, previous, index, dataPreview, histogram, rates>>

\* the user drops a file on the card
handleDrop ==
  /\ index.appState = "UPLOAD"
  /\ Len(parsing) < MaxParses
  /\ \E file \in Uploads : BeginHandleFile(file)
  /\ NoSubmission
  /\ UNCHANGED <<dataFormat, previous, index, dataPreview, histogram, rates>>

\* parseFile settles and handleFile goes on: onDataParsed for parsed data,
\* then setIsLoading(false), which reaches FileUpload only while the instance
\* that made the call is mounted
FinishHandleFile ==
  /\ \E i \in DOMAIN parsing :
       \E parsedData \in {parseFile(parsing[i].file)} :
         LET delivered == parsedData # Null
             unmounts == delivered /\ index.appState = "UPLOAD"
             others == [j \in 1..(Len(parsing) - 1) |->
                          parsing[IF j < i THEN j ELSE j + 1]]
         IN  /\ index' = IF delivered THEN handleDataParsed(index, parsedData)
                         ELSE index
             /\ fileUpload' = IF unmounts THEN FileUploadInit
                              ELSE IF parsing[i].mounted
                              THEN [fileUpload EXCEPT !.isLoading = FALSE]
                              ELSE fileUpload
             /\ parsing' = IF unmounts
                           THEN [j \in DOMAIN others |->
                                   [others[j] EXCEPT !.mounted = FALSE]]
                           ELSE others
             /\ dataPreview' =
                  IF ~delivered THEN dataPreview
                  ELSE IF index.appState = "PREVIEW"
                  THEN [dataPreview EXCEPT
                          !.columnIndex = PreselectedColumn(parsedData, @)]
                  ELSE [DataPreviewInit EXCEPT
                          !.columnIndex = PreselectedColumn(parsedData, @)]
  /\ NoSubmission
  /\ UNCHANGED <<dataFormat, previous, histogram, rates>>

\* the user chooses a column of the preview
SelectColumn ==
  /\ index.appState = "PREVIEW"
  /\ index.parsedData # Null
  /\ \E i \in DOMAIN index.parsedData.headers :
       dataPreview' = [dataPreview EXCEPT
                         !.columnIndex =
                            handleColumnSelect(index.parsedData, index.parsedData.headers[i])]
  /\ NoSubmission
  /\ UNCHANGED <<dataFormat, previous, index, fileUpload, parsing, histogram, rates>>

\* the user fills in the form and presses Calculate, which is disabled while
\* isLoading and without a column: handleSubmit, and handleCalculate in it
SubmitForm ==
  /\ index.appState = "PREVIEW"
  /\ index.parsedData # Null
  /\ ~dataPreview.isLoading
  /\ dataPreview.columnIndex # -1
  /\ \E form \in FilledForms :
       \E done \in {handleSubmit(
                      ColumnOf(index.parsedData.rows, dataPreview.columnIndex), form)} :
         \E calc \in {IF done.proceeded
                       THEN handleCalculate(index, done.values, done.params,
                                            done.params.dataFormat)
                       ELSE [threw |-> FALSE, outcome |-> done.outcome,
                             index |-> index]} :
           /\ index' = calc.index
           /\ dataPreview' = IF calc.index.appState = "RESULTS" THEN DataPreviewInit
                             ELSE [dataPreview EXCEPT !.isLoading = FALSE]
           /\ pc' = IF done.proceeded THEN "done" ELSE "refused"
           /\ rows' = ColumnOf(index.parsedData.rows, dataPreview.columnIndex)
           /\ params' = form
           /\ extracted' = done.extracted
           /\ returns' = done.values
           /\ outcome' = done.outcome
           /\ returnsFrozen' = done.outcome.freezes
  /\ UNCHANGED <<dataFormat, previous, fileUpload, parsing, histogram, rates>>

\* the user presses Start Over in the preview or in the results
Reset ==
  /\ \/ index.appState = "PREVIEW" /\ index.parsedData # Null
     \/ index.appState = "RESULTS" /\ index.result # Null
  /\ index' = handleReset(index)
  /\ fileUpload' = FileUploadInit
  /\ dataPreview' = DataPreviewInit
  /\ NoSubmission
  /\ UNCHANGED <<dataFormat, previous, parsing, histogram, rates>>

NextFlow ==
  \/ handleFileChange
  \/ handleDrop
  \/ FinishHandleFile
  \/ SelectColumn
  \/ SubmitForm
  \/ Reset

SpecFlow == InitFlow /\ [][NextFlow]_vars

----------------------------------------------------------------------------
(* onProceed called from the try block of handleSubmit *)

\* Index in the configure step: on the first upload, after an analysis and a
\* reset, and with the results of an analysis still in place
ConfigureSteps ==
  LET PreviewedData == parseFile(SheetOfColumn("PnL", <<NumberCell(Num(200))>>))
      first == handleDataParsed(IndexInit, PreviewedData)
      analysed == handleCalculate(first, <<Rat(1, 2), Num(0)>>,
                                  [NoParams EXCEPT !.tradingPeriods = Num(2)],
                                  "decimal").index
  IN  {first,
       handleDataParsed(handleReset(analysed), PreviewedData),
       handleDataParsed(analysed, PreviewedData)}

InitProceed ==
  /\ pc = "ready"
  /\ returns \in OtherSeries
  /\ returnsFrozen = FALSE
  /\ params \in EngineParams
  /\ outcome = NoOutcome
  /\ rows = <<>>
  /\ dataFormat = "auto"
  /\ extracted = NoExtraction
  /\ previous = NoOutcome
  /\ index \in ConfigureSteps
  /\ fileUpload = FileUploadInit
  /\ dataPreview = [DataPreviewInit EXCEPT !.columnIndex = 0]
  /\ parsing = <<>>
  /\ histogram = <<>>
  /\ rates = NoRates

\* handleSubmit from setIsLoading(true) on, for the values and params it
\* hands to onProceed: try { onProceed(...) } catch { toast } finally
\* { setIsLoading(false) }
Proceed ==
  /\ pc = "ready"
  /\ index.appState = "PREVIEW"
  /\ \E calc \in {handleCalculate(index, returns, params, params.dataFormat)} :
       /\ index' = calc.index
       /\ pc' = IF calc.threw THEN "caught" ELSE "done"
       /\ outcome' = calc.outcome
       /\ returnsFrozen' = calc.outcome.freezes
       /\ dataPreview' = IF calc.index.appState = "RESULTS" THEN DataPreviewInit
                         ELSE [dataPreview EXCEPT !.isLoading = FALSE]
  /\ UNCHANGED <<returns, params, rows, dataFormat, extracted, previous,
                 fileUpload, parsing, histogram, rates>>

SpecProceed == InitProceed /\ [][Proceed]_vars

----------------------------------------------------------------------------
(* Results draws the distribution of a series *)

\* the returns of the charted series: losses, zero and gains, the largest
\* loss fifty times the smallest gain
ChartedReturns == {Num(-10), Num(-1), Num(0), Rat(1, 5), Rat(2, 5), Num(1)}

InitChart ==
  /\ pc = "ready"
  /\ returns \in SeriesOf(ChartedReturns, MaxLen)
  /\ returnsFrozen = FALSE
  /\ params = NoParams
  /\ outcome = NoOutcome
  /\ rows = <<>>
  /\ dataFormat = "auto"
  /\ extracted = NoExtraction
  /\ previous = NoOutcome
  /\ PageLoaded
  /\ rates = NoRates

\* Results renders the chart of returnValues
RenderChart ==
  /\ pc = "ready"
  /\ histogram' = prepareHistogramData(returns)
  /\ pc' = "done"
  /\ UNCHANGED <<returns, returnsFrozen, params, outcome, rows, dataFormat,
                 extracted, previous, index, fileUpload, dataPreview, parsing, rates>>

SpecChart == InitChart /\ [][RenderChart]_vars

----------------------------------------------------------------------------
(* A sheet parsed and its first column extracted *)

\* the numbers of the uploaded cells: a loss, zero, a fraction, and amounts
\* just outside, at the ends of and inside the range 35000..60000
ParsedNumbers ==
  {Num(-45000), Num(0), Rat(1, 2), Num(34999), Num(35000), Rat(90001, 2),
   Num(60000), Num(60001)}

InitParse ==
  /\ pc = "ready"
  /\ returns = <<>>
  /\ returnsFrozen = FALSE
  /\ params = NoParams
  /\ outcome = NoOutcome
  /\ rows \in UNION {[1..n -> {NumberCell(v) : v \in ParsedNumbers}] : n \in 1..MaxShortRows}
  /\ dataFormat \in {"decimal", "absolute"}
  /\ extracted = NoExtraction
  /\ previous = NoOutcome
  /\ PageLoaded
  /\ rates = NoRates

\* handleFile reads the sheet: parseFile, then onDataParsed
ParseSheet ==
  /\ pc = "ready"
  /\ index' = handleDataParsed(index, parseFile(SheetOfColumn("PnL", rows)))
  /\ pc' = "parsed"
  /\ UNCHANGED <<returns, returnsFrozen, params, outcome, rows, dataFormat,
                 extracted, previous, fileUpload, dataPreview, parsing, histogram,
                 rates>>

\* the configure step invokes extractValidNumbers(data.rows, 0, dataFormat)
ExtractParsed ==
  /\ pc = "parsed"
  /\ extracted' = extractValidNumbers(ColumnOf(index.parsedData.rows, 0), dataFormat)
  /\ pc' = "done"
  /\ UNCHANGED <<returns, returnsFrozen, params, outcome, rows, dataFormat, previous, ui, rates>>

NextParse == ParseSheet \/ ExtractParsed

SpecParse == InitParse /\ [][NextParse]_vars

----------------------------------------------------------------------------
(* Properties of the engine, checked under Spec *)

Returned == pc = "done" /\ outcome.status = "returned"
Threw == pc = "done" /\ outcome.status = "threw"

\* the series the statistics are computed on, and the downside threshold
CalcSeries == returnsForCalculation(returns, params)
Threshold == targetReturn(params)

IsConstant(arr) == \A i \in DOMAIN arr : arr[i] = arr[1]

IsFiniteNumber(x) == x.k \in {"fin", "sr", "pw", "pwm1"}

C2_NonPositiveCapitalThrows ==
  (pc = "done" /\ params.dataFormat = "absolute"
     /\ params.portfolioValue # Undefined
     /\ ~Lt(Num(0), params.portfolioValue))
    => outcome.status = "threw"

\* C3: with tradingPeriods <= 0 every call throws instead of returning a
\* result, in every data format.
C3_NonPositivePeriodsThrows ==
  (pc = "done" /\ Le(params.tradingPeriods, Num(0))) => outcome.status = "threw"

\* C4 as stated: a constant series with tradingPeriods > 0 gives
\* sharpeRatio = 0 and sortinoRatio = 0.
C4_ConstantSeriesBothZero ==
  (Returned /\ IsConstant(returns) /\ Lt(Num(0), params.tradingPeriods))
    => (outcome.result.sharpeRatio = Num(0) /\ outcome.result.sortinoRatio = Num(0))

\* C4 as amended: a constant series with tradingPeriods > 0 gives
\* sharpeRatio = 0; sortinoRatio is 0 when the constant fractional return is
\* not below the periodic target, and it is a finite number when the annual
\* risk-free rate is -100% or more.
C4_ConstantSeriesGuarded ==
  (Returned /\ IsConstant(returns) /\ Lt(Num(0), params.tradingPeriods))
    => /\ outcome.result.sharpeRatio = Num(0)
       /\ Le(Num(-100), params.riskFreeRate) =>
            IsFiniteNumber(outcome.result.sortinoRatio)
       /\ Ge(CalcSeries[1], Threshold) => outcome.result.sortinoRatio = Num(0)

C4_Witness ==
  /\ Returned
  /\ IsConstant(returns)
  /\ Len(returns) >= 2
  /\ Lt(Num(0), params.tradingPeriods)
  /\ Lt(CalcSeries[1], Threshold)
  /\ outcome.result.sharpeRatio = Num(0)
  /\ outcome.result.sortinoRatio # Num(0)

\* the positions of the returns strictly below the target
DownsideSet == {i \in DOMAIN CalcSeries : Lt(CalcSeries[i], Threshold)}

\* the sum over a set of positions of (target - d)^2
RECURSIVE ShortfallSum(_)
ShortfallSum(D) ==
  IF D = {} THEN Num(0)
  ELSE LET i == CHOOSE j \in D : TRUE
       IN  Add(Pow2(Sub(Threshold, CalcSeries[i])), ShortfallSum(D \ {i}))

MaxOf(a, b) == IF a >= b THEN a ELSE b

C6_NoDownsideGivesZero ==
  (Returned /\ \A i \in DOMAIN CalcSeries : Ge(CalcSeries[i], Threshold))
    => (outcome.result.downsideDeviation = Num(0) /\ outcome.result.sortinoRatio = Num(0))

C6_Witness ==
  /\ Returned
  /\ Len(returns) >= 2
  /\ Lt(Num(0), params.tradingPeriods)
  /\ \A i \in DOMAIN CalcSeries : Ge(CalcSeries[i], Threshold)
  /\ \E i \in DOMAIN CalcSeries : Lt(Threshold, CalcSeries[i])
  /\ ~IsConstant(returns)
  /\ outcome.result.downsideDeviation = Num(0)

\* C7: for a series of exactly one observation the reported stdDeviation is
\* the number 0, not NaN.
C7_SingleObservationStdIsZero ==
  (Returned /\ Len(returns) = 1) => outcome.result.stdDeviation = Num(0)

\* C8: when some fractional return R has 1 + R <= 0 the call throws; it does
\* not return a result.
C8_TotalLossThrows ==
  (pc = "done" /\ \E i \in DOMAIN CalcSeries : Le(Add(Num(1), CalcSeries[i]), Num(0)))
    => outcome.status = "threw"

\* C12: in every result positiveReturns is the number of observations >= 0
\* (zero counts as positive), negativeReturns is the number of observations
\* < 0, and positiveReturns + negativeReturns = totalReturns = the length of
\* the input series.
C12_CountsPartitionTheSeries ==
  Returned =>
    /\ outcome.result.positiveReturns =
         Cardinality({i \in DOMAIN returns : returns[i].n >= 0})
    /\ outcome.result.negativeReturns =
         Cardinality({i \in DOMAIN returns : returns[i].n < 0})
    /\ outcome.result.positiveReturns + outcome.result.negativeReturns =
         outcome.result.totalReturns
    /\ outcome.result.totalReturns = Len(returns)

C12_Witness ==
  /\ Returned
  /\ Len(returns) = MaxLen
  /\ \E i \in DOMAIN returns : returns[i] = Num(0)
  /\ \E i \in DOMAIN returns : Lt(returns[i], Num(0))
  /\ \E i \in DOMAIN returns : Lt(Num(0), returns[i])
  /\ outcome.result.positiveReturns = MaxLen - 1
  /\ outcome.result.negativeReturns = 1

\* C13: a call leaves the caller's observation array exactly as it was, in
\* every data format: the same elements, order and length, and the array
\* object stays as writable and extensible as before the call.
C13_CallerArrayUntouched ==
  [][returns' = returns /\ returnsFrozen' = returnsFrozen]_vars

\* the sum of a series, folded from the front
RECURSIVE Total(_)
Total(series) ==
  IF series = <<>> THEN Num(0) ELSE Add(Head(series), Total(Tail(series)))

\* observation / V
DividedByCapital == [i \in DOMAIN returns |-> Div(returns[i], params.portfolioValue)]

SampleMean(series) == Div(Total(series), Num(Len(series)))

SampleStd(series) ==
  Sqrt(Div(Total([i \in DOMAIN series |-> Pow2(Sub(series[i], SampleMean(series)))]),
           Num(Len(series) - 1)))

DownsideStd(series, threshold) ==
  LET below == SelectSeq(series, LAMBDA r : Lt(r, threshold))
  IN  Sqrt(Div(Total([i \in DOMAIN below |-> Pow2(Sub(threshold, below[i]))]),
               Num(MaxOf(1, Len(below) - 1))))

C16_MissingTargetIsRiskFreeRate ==
  (pc = "done" /\ params.targetReturn = Undefined)
    => calculateSharpeAndSortino(
         returns, [params EXCEPT !.targetReturn = params.riskFreeRate]) = outcome

C16_Witness ==
  /\ Returned
  /\ params.targetReturn = Undefined
  /\ params.riskFreeRate = Num(125)
  /\ params.tradingPeriods = Num(2)
  /\ \E i \in DOMAIN CalcSeries :
       Ge(CalcSeries[i], Num(0)) /\ Lt(CalcSeries[i], Threshold)
  /\ outcome.result.downsideDeviation # Num(0)
  /\ outcome.result.sortinoRatio # Num(0)

\* a result with the two fields that depend on the downside threshold blanked
WithoutDownside(result) ==
  [result EXCEPT !.downsideDeviation = Undefined, !.sortinoRatio = Undefined]

\* the result of the same call made without a target rate
WithoutTarget == EngineResult(returns, [params EXCEPT !.targetReturn = Undefined])

\* C17: two calls that differ only in the target rate return equal values in
\* every field other than downsideDeviation and sortinoRatio.  Every call is
\* compared with the call that has no target rate, so any two calls that
\* differ only in the target rate agree with one another.
C17_TargetOnlyMovesDownside ==
  Returned => WithoutDownside(WithoutTarget) = WithoutDownside(outcome.result)

C17_Witness ==
  /\ Returned
  /\ params.targetReturn = Num(125)
  /\ params.riskFreeRate = Num(0)
  /\ params.tradingPeriods = Num(2)
  /\ outcome.result.sharpeRatio # Num(0)
  /\ IsFiniteNumber(outcome.result.sharpeRatio)
  /\ outcome.result.downsideDeviation # WithoutTarget.downsideDeviation
  /\ outcome.result.sortinoRatio # WithoutTarget.sortinoRatio

\* whether the series went into the statistics unconverted
Unconverted == ~Conversion(returns, params).wasConverted

RECURSIVE GrowthFactor(_)
GrowthFactor(series) ==
  IF series = <<>> THEN Num(1)
  ELSE Mul(Add(Num(1), Head(series)), GrowthFactor(Tail(series)))

Swapped(series, i) ==
  [j \in DOMAIN series |->
     IF j = i THEN series[i + 1] ELSE IF j = i + 1 THEN series[i] ELSE series[j]]

\* C19: the statistics do not depend on the order of the observations: the
\* auto-detected format and every result field are the same for a series and
\* for the series with two neighbouring observations swapped.  Every series
\* is the input of some call, and every permutation is a chain of such swaps.
C19_OrderIndependent ==
  pc = "done" =>
    \A i \in 1..(Len(returns) - 1) :
      /\ AutoDetect(Swapped(returns, i)) = AutoDetect(returns)
      /\ calculateSharpeAndSortino(Swapped(returns, i), params) = outcome

C19_Witness ==
  /\ Returned
  /\ Len(returns) = MaxLen
  /\ returns[1] # returns[2]
  /\ returns[2] # returns[MaxLen]
  /\ params.tradingPeriods = Num(2)
  /\ IsFiniteNumber(outcome.result.sharpeRatio)
  /\ outcome.result.sharpeRatio # Num(0)
  /\ outcome.result.sortinoRatio # Num(0)
  /\ outcome.result.minReturn # outcome.result.maxReturn

Exported == exportAnalysisToXLSX(outcome.result, returns, params)

\* C22: for the same returns and parameters, for every data format and target
\* rate, the mean, standard deviation and downside deviation of the Breakdown
\* sheet equal the meanReturn, stdDeviation and downsideDeviation of the
\* engine's result.
C22_ExportMatchesEngine ==
  Returned =>
    /\ Exported.meanFrac = outcome.result.meanReturn
    /\ Exported.stdDevFrac = outcome.result.stdDeviation
    /\ Exported.downsideDev = outcome.result.downsideDeviation

----------------------------------------------------------------------------
(* Properties of the rate conversion, checked under SpecRates *)

\* (1 + p)^N, the periodic rate p compounded over the N periods of a year
Compounded(p) == Pow(Add(Num(1), p), params.tradingPeriods)

\* 1 + a/100 for the annual rate a in percent
AnnualFactor(a) == Add(Num(1), Div(a, Num(100)))

\* |x - y| < 1e-6
WithinTolerance(x, y) ==
  /\ IsFin(x)
  /\ IsFin(y)
  /\ Lt(MathAbs(Sub(x, y)), Rat(1, 1000000))

\* the target rate in effect: the given one, else the risk-free rate
EffectiveTarget ==
  IF params.targetReturn = Undefined THEN params.riskFreeRate ELSE params.targetReturn

\* C23: the risk-free and the target rate are both converted in the compound
\* form p = (1 + a/100)^(1/N) - 1, so that p compounded over N periods gives
\* back the annual rate; for a = 12 and N = 252, (1 + p)^252 is 1.12 within
\* 1e-6.
C23_CompoundRateRoundTrip ==
  pc = "done" =>
    /\ rates.periodicRiskFreeRate =
         Sub(Pow(AnnualFactor(params.riskFreeRate), Div(Num(1), params.tradingPeriods)),
             Num(1))
    /\ rates.targetReturn =
         Sub(Pow(AnnualFactor(EffectiveTarget), Div(Num(1), params.tradingPeriods)),
             Num(1))
    /\ WithinTolerance(Compounded(rates.periodicRiskFreeRate),
                       AnnualFactor(params.riskFreeRate))
    /\ WithinTolerance(Compounded(rates.targetReturn), AnnualFactor(EffectiveTarget))

C23_Witness ==
  /\ pc = "done"
  /\ params.riskFreeRate = Num(12)
  /\ params.tradingPeriods = Num(252)
  /\ params.targetReturn = Num(125)
  /\ rates.periodicRiskFreeRate = Mk("pwm1", 28, 25, 1, 252)
  /\ Compounded(rates.periodicRiskFreeRate) = Rat(28, 25)
  /\ Compounded(rates.targetReturn) = Rat(9, 4)

----------------------------------------------------------------------------
(* Properties of the normalizer, checked under SpecNorm *)

\* the cleaned numbers of the column, in the cells' own terms
Cleaned == [i \in 1..Len(SelectSeq(rows, LAMBDA c : c.t = "number")) |->
              SelectSeq(rows, LAMBDA c : c.t = "number")[i].v]

Magnitude(v) == IF Lt(v, Num(0)) THEN Neg(v) ELSE v

PercentLike == {i \in DOMAIN Cleaned :
                  Lt(Num(1), Magnitude(Cleaned[i])) /\ Le(Magnitude(Cleaned[i]), Num(100))}
DecimalLike == {i \in DOMAIN Cleaned :
                  Lt(Num(0), Magnitude(Cleaned[i])) /\ Lt(Magnitude(Cleaned[i]), Num(1))}
AbsoluteLike == {i \in DOMAIN Cleaned : Lt(Num(100), Magnitude(Cleaned[i]))}

DividedBy100 == [i \in DOMAIN Cleaned |-> Div(Cleaned[i], Num(100))]

AutoDone == pc = "done" /\ dataFormat = "auto" /\ Len(Cleaned) > 0

\* what the classification as a bucket's format amounts to
ClassifiedAs(format) ==
  /\ extracted.detectedFormat = format
  /\ extracted.values = IF format = "percent" THEN DividedBy100 ELSE Cleaned

AtLeast70(bucket) == 10 * Cardinality(bucket) >= 7 * Len(Cleaned)
MoreThan70(bucket) == 10 * Cardinality(bucket) > 7 * Len(Cleaned)

\* C9 as stated: in auto format a bucket that holds at least 70% of the
\* observations, exactly 70% included, decides the format and the transform.
C9_AtLeast70Classifies ==
  AutoDone =>
    /\ AtLeast70(PercentLike) => ClassifiedAs("percent")
    /\ AtLeast70(DecimalLike) => ClassifiedAs("decimal")
    /\ AtLeast70(AbsoluteLike) => ClassifiedAs("absolute")

\* C9 as amended: in auto format a bucket that holds more than 70% of the
\* observations decides the format and the transform.
C9_MoreThan70Classifies ==
  AutoDone =>
    /\ MoreThan70(PercentLike) => ClassifiedAs("percent")
    /\ MoreThan70(DecimalLike) => ClassifiedAs("decimal")
    /\ MoreThan70(AbsoluteLike) => ClassifiedAs("absolute")

C9_Witness ==
  /\ AutoDone
  /\ MoreThan70(AbsoluteLike)
  /\ Cardinality(AbsoluteLike) < Len(Cleaned)
  /\ PercentLike # {}
  /\ extracted.detectedFormat = "absolute"

NoBucketReaches70 ==
  ~AtLeast70(PercentLike) /\ ~AtLeast70(DecimalLike) /\ ~AtLeast70(AbsoluteLike)

InPercentBand(v) == Le(Rat(1, 100), Magnitude(v)) /\ Le(Magnitude(v), Num(100))

\* C10 as stated: when no bucket reaches 70%, the series is divided by 100
\* only if every observation, zeros included, has magnitude in [0.01, 100];
\* otherwise it is passed through and tagged decimal.
C10_FallbackCountsZeros ==
  (AutoDone /\ NoBucketReaches70) =>
    IF \A i \in DOMAIN Cleaned : InPercentBand(Cleaned[i])
    THEN ClassifiedAs("percent")
    ELSE ClassifiedAs("decimal")

\* C10 as amended: when no bucket reaches 70%, the series is divided by 100
\* only if every observation other than zero has magnitude in [0.01, 100];
\* otherwise it is passed through and tagged decimal.
C10_FallbackIgnoresZeros ==
  (AutoDone /\ NoBucketReaches70) =>
    IF \A i \in DOMAIN Cleaned : Cleaned[i] = Num(0) \/ InPercentBand(Cleaned[i])
    THEN ClassifiedAs("percent")
    ELSE ClassifiedAs("decimal")

C10_Witness ==
  /\ AutoDone
  /\ NoBucketReaches70
  /\ \E i \in DOMAIN Cleaned : Cleaned[i] = Num(0)
  /\ \E i \in DOMAIN Cleaned : Magnitude(Cleaned[i]) = Num(100)
  /\ extracted.detectedFormat = "percent"

----------------------------------------------------------------------------
(* Properties of the configure step, checked under SpecPipe *)

Proceeded == pc = "done" /\ outcome.status = "returned"

\* C11: for every data format the minReturn and maxReturn of the result are
\* the minimum and the maximum of the observations as uploaded, never of a
\* rescaled series.
C11_MinMaxInUploadedUnits ==
  Proceeded =>
    /\ outcome.result.minReturn = MathMin(Cleaned)
    /\ outcome.result.maxReturn = MathMax(Cleaned)

\* the column with every cell multiplied by 100, and divided by 100
Times100(column) ==
  [i \in DOMAIN column |-> NumberCell(Mul(column[i].v, Num(100)))]
Over100(column) ==
  [i \in DOMAIN column |-> NumberCell(Div(column[i].v, Num(100)))]

\* the other run hands the engine the same fractional series and gets the
\* same ratios, mean and deviations
SameSeriesAndRatios(other) ==
  /\ other.proceeded
  /\ other.values = returns
  /\ other.outcome.result.sharpeRatio = outcome.result.sharpeRatio
  /\ other.outcome.result.sortinoRatio = outcome.result.sortinoRatio
  /\ other.outcome.result.meanReturn = outcome.result.meanReturn
  /\ other.outcome.result.stdDeviation = outcome.result.stdDeviation
  /\ other.outcome.result.downsideDeviation = outcome.result.downsideDeviation

\* C15: with the same rates and periods, a series R run as decimal and the
\* series R * 100 run as percent give the same fractional series and the same
\* Sharpe ratio, Sortino ratio, mean, standard deviation and downside
\* deviation.
C15_DecimalAndPercentAgree ==
  Proceeded =>
    /\ dataFormat = "decimal" =>
         SameSeriesAndRatios(
           handleSubmit(Times100(rows), [params EXCEPT !.dataFormat = "percent"]))
    /\ dataFormat = "percent" =>
         SameSeriesAndRatios(
           handleSubmit(Over100(rows), [params EXCEPT !.dataFormat = "decimal"]))

C15_Witness ==
  /\ Proceeded
  /\ dataFormat = "decimal"
  /\ \E i \in DOMAIN rows : rows[i].v = Rat(1, 2)
  /\ \E i \in DOMAIN rows : rows[i].v = Num(0)
  /\ IsFiniteNumber(outcome.result.sharpeRatio)
  /\ outcome.result.sharpeRatio # Num(0)
  /\ outcome.result.sortinoRatio # Num(0)
  /\ returns = Cleaned

----------------------------------------------------------------------------
(* Properties of the parser, checked under SpecParse *)

\* the numbers in the cells of the uploaded column
UploadedNumbers == [i \in DOMAIN rows |-> rows[i].v]

\* C29: for every numeric cell value v of the selected column, whatever its
\* magnitude, the observation extracted from that cell, before the format
\* transform, is v.
C29_NumericCellsExtractedUnchanged ==
  pc = "done" => extracted.values = UploadedNumbers

\* C30: for every requested format and every column with a numeric cell the
\* reported format is percent, decimal or absolute, the returned values are
\* the cleaned values divided by 100 exactly when the reported format is
\* percent and the cleaned values themselves otherwise, in the same number and
\* order; a column without a numeric cell gives no values and format unknown.
C30_ReportedFormatIsApplied ==
  pc = "done" =>
    IF Len(Cleaned) = 0
    THEN extracted = [values |-> <<>>, detectedFormat |-> "unknown"]
    ELSE /\ extracted.detectedFormat \in {"percent", "decimal", "absolute"}
         /\ Len(extracted.values) = Len(Cleaned)
         /\ extracted.detectedFormat = "percent" => extracted.values = DividedBy100
         /\ extracted.detectedFormat # "percent" => extracted.values = Cleaned
         /\ dataFormat # "auto" => extracted.detectedFormat = dataFormat

C30_Witness ==
  /\ pc = "done"
  /\ dataFormat = "percent"
  /\ Len(rows) > Len(Cleaned)
  /\ Len(Cleaned) > 1
  /\ Cleaned[1] # Cleaned[2]
  /\ extracted.detectedFormat = "percent"
  /\ extracted.values = DividedBy100
  /\ extracted.values # Cleaned

----------------------------------------------------------------------------
(* Properties of the chart, checked under SpecChart *)

RECURSIVE CountSum(_)
CountSum(bins) ==
  IF bins = <<>> THEN 0
  ELSE CountSum(SubSeq(bins, 1, Len(bins) - 1)) + bins[Len(bins)].count

\* C28: for every non-empty series the bin counts sum to the number of return
\* values, and no bin spans both negative and positive values.
C28_EveryReturnCountedOnce ==
  pc = "done" =>
    /\ CountSum(histogram) = Len(returns)
    /\ \A i \in DOMAIN histogram :
         ~(Lt(histogram[i].min, Num(0)) /\ Lt(Num(0), histogram[i].max))

----------------------------------------------------------------------------
(* Properties of the workflow, checked under SpecFlow *)

\* C21: appState changes only from UPLOAD to PREVIEW, from PREVIEW to
\* RESULTS, and from PREVIEW or RESULTS to UPLOAD; no step takes it from
\* RESULTS to PREVIEW or from UPLOAD to RESULTS, whatever the order of the
\* user's actions and the file parses that complete.
C21_ThreeStepOrder ==
  [][\/ index'.appState = index.appState
     \/ index.appState = "UPLOAD" /\ index'.appState = "PREVIEW"
     \/ index.appState = "PREVIEW" /\ index'.appState = "RESULTS"
     \/ index.appState \in {"PREVIEW", "RESULTS"} /\ index'.appState = "UPLOAD"]_vars

\* the numeric observations of the column handleSubmit was called on
NumericObservations == SelectSeq(rows, LAMBDA cell : cleanNumericValue(cell) # Null)

\* the format in effect for the form and the column of that call
EffectiveFormat ==
  IF params.dataFormat = "auto"
  THEN extractValidNumbers(rows, "auto").detectedFormat
  ELSE params.dataFormat

\* the rates and the periods are numbers, the periods are above zero, there
\* are ten numeric observations or more and absolute data comes with a
\* portfolio value above zero
SubmissionIsValid ==
  /\ ~IsNaN(params.riskFreeRate)
  /\ ~IsNaN(params.tradingPeriods)
  /\ ~IsNaN(params.targetReturn)
  /\ ~IsNaN(params.portfolioValue)
  /\ Lt(Num(0), params.tradingPeriods)
  /\ Len(NumericObservations) >= MinDataPoints
  /\ EffectiveFormat = "absolute" => Lt(Num(0), params.portfolioValue)

\* C24: handleSubmit calls onProceed only when a column is selected, the
\* rates and periods parse as numbers, tradingPeriods is above zero, there are
\* at least 10 numeric observations and, for the absolute format in effect,
\* the portfolio value is above zero; otherwise the engine is not called and
\* the application stays in PREVIEW.
C24_ProceedsOnlyWhenValid ==
  /\ pc = "done" => SubmissionIsValid /\ outcome.status # "none"
  /\ pc = "refused" =>
       /\ ~SubmissionIsValid
       /\ outcome = NoOutcome
       /\ index.appState = "PREVIEW"
       /\ dataPreview.columnIndex # -1

C24_Witness ==
  /\ pc = "done"
  /\ params.dataFormat = "auto"
  /\ EffectiveFormat = "absolute"
  /\ params.portfolioValue = Num(200)
  /\ Len(NumericObservations) = MinDataPoints
  /\ outcome.status = "returned"
  /\ index.appState = "RESULTS"

\* C25: at most one file parse is in progress at a time.
C25_OneParseAtATime == Len(parsing) <= 1

\* C27: in PREVIEW parsedData is not null, and in RESULTS result and
\* calculationParams are not null, also after a reset and a new analysis.
C27_StepHasItsData ==
  /\ index.appState = "PREVIEW" => index.parsedData # Null
  /\ index.appState = "RESULTS" =>
       index.result # Null /\ index.calculationParams # Null

C27_Witness ==
  /\ index.appState = "PREVIEW"
  /\ index.parsedData # Null
  /\ index.result = Null
  /\ index.calculationParams # Null

----------------------------------------------------------------------------
(* Properties of the call of onProceed, checked under SpecProceed *)

\* C26: when the engine throws inside handleCalculate, appState stays
\* PREVIEW and result, returnValues, dataFormat and calculationParams keep
\* their values; the error is caught in handleSubmit and isLoading is false
\* afterwards.
C26_ThrowLeavesIndexUntouched ==
  [][outcome'.status = "threw" =>
       /\ pc' = "caught"
       /\ index'.appState = "PREVIEW"
       /\ index'.result = index.result
       /\ index'.returnValues = index.returnValues
       /\ index'.dataFormat = index.dataFormat
       /\ index'.calculationParams = index.calculationParams
       /\ ~dataPreview'.isLoading]_vars

C26_Witness ==
  /\ pc = "caught"
  /\ outcome.status = "threw"
  /\ index.appState = "PREVIEW"
  /\ index.result # Null
  /\ index.returnValues # <<>>
  /\ index.calculationParams # Null
  /\ index.calculationParams # params
  /\ ~dataPreview.isLoading
====
